---- MODULE Spec2Model ----
(***************************************************************************)
(* The CRUD slices of activity_backend: route -> validation middleware ->  *)
(* service -> repository -> document store, for Customer, Timesheet,       *)
(* ServiceCompany (all four layers), ProjectStatus and ActivityManager     *)
(* (repository layer).  A request is a process that advances one handler   *)
(* step at a time; every awaited storage call is a step of its own.        *)
(***************************************************************************)
EXTENDS Integers, Sequences, FiniteSets, TLC

(* ------------------------------ bounds -------------------------------- *)

\* identifiers the store hands out: 1..MaxId
MaxId == 2
\* page numbers requested: 1..MaxPage
MaxPage == 2
\* page sizes requested: 1..MaxLimit
MaxLimit == 2
\* a request body provides at most MaxPartial fields, or omits at most
\* MaxPartial of the fields its interface declares
MaxPartial == 1
\* collections that hold records in one behaviour
MaxSlices == 1

(* ----------------------------- entities ------------------------------- *)

Entities == {"Customer", "Manager", "ProjectStatus", "ServiceCompany", "Timesheet"}

Ops == {"list", "get", "create", "update", "delete"}

\* slices whose service, middleware and routes are among the sources
WithService == {"Customer", "ServiceCompany", "Timesheet"}

\* repositories whose queries carry isDeleted: false and whose delete sets
\* isDeleted: true
SoftDeleted == {"Customer", "Manager"}

\* the text field a search is matched against
SearchField(e) == IF e = "Timesheet" THEN "file" ELSE "name"

\* repositories whose find applies skip and limit
Paginates(e) == e # "Timesheet"

\* the list method that counts before it finds
CountsFirst(e) == e = "Manager"

\* reference fields the repository populates on find / update / delete
PopulatedFields(e) ==
  CASE e = "Timesheet" -> {"activity", "worker", "manager"}
    [] e = "Manager" -> {"admin"}
    [] OTHER -> {}

(* ------------------------------ values -------------------------------- *)

\* text values are tuples of characters; <<>> is the empty string
Names == {<<"A", "b">>, <<"b">>}

Searches == {<<>>, <<"a">>, <<"B">>, <<".">>}

\* a reference to a record of another collection, as stored
Ref(x) == <<"id", x>>

\* records of the collections that have no repository among the sources
ExistingRefs == {"r1"}

TextFields == {"name", "file"}
BoolFields == {"isActive", "isDeleted", "isAccepted", "isPending", "isRejected", "isResubmitted"}
NumFields == {"startTime", "endTime", "date", "hoursSpent"}
RefFields == {"activity", "worker", "manager", "admin"}

\* the fields of the create / update interfaces, with the values requests carry
FullBodies(e) ==
  CASE e = "Customer" ->
         [email : {"e1", "e2"}, name : Names \cup {<<>>}, password : {"pw"},
          isActive : {FALSE}, isDeleted : {TRUE}]
    [] e = "ServiceCompany" ->
         [name : Names \cup {<<>>}, address : {"ad"}, description : {"d"},
          map : {"m"}, url : {"u"}]
    [] e = "Timesheet" ->
         [activity : {Ref("r1")}, worker : {Ref("r1")},
          manager : {Ref(i) : i \in 1..MaxId},
          startTime : {1}, endTime : {2}, hoursSpent : {3}, date : {1},
          file : Names \cup {<<>>}, isAccepted : {TRUE}]
    [] e = "Manager" -> [name : Names, admin : {Ref("r1"), Ref("r2")}]
    [] e = "ProjectStatus" -> [name : Names]

BodyFields(e) == DOMAIN (CHOOSE b \in FullBodies(e) : TRUE)

Restrict(b, S) == [f \in S |-> b[f]]

Bodies(e) ==
  { Restrict(b, S) : b \in FullBodies(e),
                     S \in { T \in SUBSET BodyFields(e) :
                               \/ Cardinality(T) <= MaxPartial
                               \/ Cardinality(BodyFields(e) \ T) <= MaxPartial } }

\* JavaScript truthiness of body.f (an absent field is undefined)
Truthy(b, f) ==
  /\ f \in DOMAIN b
  /\ CASE f \in TextFields -> b[f] # <<>>
       [] f \in BoolFields -> b[f]
       [] f \in NumFields -> b[f] # 0
       [] f \in RefFields -> TRUE
       [] OTHER -> b[f] # ""

(* ------------------------- schemas (mongoose) ------------------------- *)

\* paths declared required: true
Required(e) ==
  CASE e = "Customer" -> {"email", "name", "password"}
    [] e = "ServiceCompany" -> {"name", "address"}
    [] e = "Timesheet" -> {"activity", "worker", "manager", "startTime", "endTime",
                           "hoursSpent", "date", "file"}
    [] OTHER -> {}

\* paths declared unique: true
Unique(e) == IF e = "Customer" THEN {"email"} ELSE {}

\* the ActivityManager schema: the soft-delete flag its repository filters on
\* starts as false
ManagerDefaults == [isDeleted |-> FALSE]

\* paths with a default, filled in when a document is created without them
Defaults(e) ==
  CASE e = "Customer" -> [isActive |-> TRUE, isDeleted |-> FALSE]
    [] e = "ServiceCompany" -> [isActive |-> TRUE, isDeleted |-> FALSE]
    [] e = "Timesheet" -> [isPending |-> TRUE, isRejected |-> FALSE, isAccepted |-> FALSE,
                           isResubmitted |-> FALSE, rejectionReason |-> <<>>]
    [] e = "Manager" -> ManagerDefaults
    [] OTHER -> <<>>

\* the required validator: the path is set, and a string path is not empty
Provided(b, f) ==
  /\ f \in DOMAIN b
  /\ f \in TextFields => b[f] # <<>>

(* ------------------------- the document store ------------------------- *)

\* a removal that leaves the collection as it is
RemoveNothing(docs, i) == docs

RemoveAt(docs, i) == [j \in 1..(Len(docs) - 1) |-> IF j < i THEN docs[j] ELSE docs[j + 1]]

\* the document a create inserts: the body's paths, the defaults, a fresh _id
NewDoc(e, body, id) ==
  [f \in (DOMAIN body) \cup (DOMAIN Defaults(e)) \cup {"_id"} |->
     IF f = "_id" THEN id
     ELSE IF f \in DOMAIN body THEN body[f] ELSE Defaults(e)[f]]

\* an update that does not write the soft-delete flag
SetFieldsKeepingFlag(doc, body) ==
  [f \in (DOMAIN doc) \cup (DOMAIN body) |->
     IF f \in DOMAIN body /\ (f # "isDeleted" \/ f \notin DOMAIN doc)
       THEN body[f] ELSE doc[f]]

\* an update that replaces the document by its body, keeping the identifier
ReplaceFields(doc, body) ==
  [f \in (DOMAIN body) \cup {"_id"} |-> IF f \in DOMAIN body THEN body[f] ELSE doc[f]]

\* an update that fills in missing paths only: the first value written stays
SetMissingFields(doc, body) ==
  [f \in (DOMAIN doc) \cup (DOMAIN body) |-> IF f \in DOMAIN doc THEN doc[f] ELSE body[f]]

\* the document after an update body is applied as a $set of its paths
SetFields(doc, body) ==
  [f \in (DOMAIN doc) \cup (DOMAIN body) |-> IF f \in DOMAIN body THEN body[f] ELSE doc[f]]

\* a store without unique indexes
NoDuplicates(e, docs, doc) == FALSE

\* a write that would leave two documents with one value of a unique path
Duplicates(e, docs, doc) ==
  \E f \in Unique(e) : \E i \in 1..Len(docs) :
     /\ docs[i]["_id"] # doc["_id"]
     /\ f \in DOMAIN doc /\ f \in DOMAIN docs[i]
     /\ docs[i][f] = doc[f]

Lower(c) == CASE c = "A" -> "a" [] c = "B" -> "b" [] OTHER -> c

\* { $regex: pat, $options: "i" } on a text: pat is a regular expression, in
\* which "." stands for any one character
RegexMatch(text, pat) ==
  \E off \in 0..(Len(text) - Len(pat)) :
     \A i \in 1..Len(pat) : pat[i] = "." \/ Lower(pat[i]) = Lower(text[off + i])

\* what populate puts in place of a stored reference
Populated(f, ref, managers) ==
  IF f = "manager"
    THEN IF \E i \in 1..Len(managers) : managers[i]["_id"] = ref[2]
           THEN <<"doc", ref[2]>> ELSE <<"null">>
    ELSE IF ref[2] \in ExistingRefs THEN <<"doc", ref[2]>> ELSE <<"null">>

Populate(e, doc, managers) ==
  [f \in DOMAIN doc |->
     IF f \in PopulatedFields(e) THEN Populated(f, doc[f], managers) ELSE doc[f]]

(* ------------------------------ labels -------------------------------- *)

\* the label a repository method logs a failure under
RepoLabel(e, op) ==
  CASE e = "Customer" ->
         [list |-> "CustomerRepository-getCustomers",
          get |-> "CustomerRepository-getCustomerById",
          create |-> "CustomerRepository-createCustomer",
          update |-> "CustomerRepository-updateCustomer",
          delete |-> "CustomerRepository-deleteCustomer"][op]
    [] e = "Timesheet" ->
         [list |-> "TimesheetRepository-getTimesheets",
          get |-> "TimesheetRepository-getTimesheetById",
          create |-> "TimesheetRepository-createTimesheet",
          update |-> "TimesheetRepository-updateTimesheet",
          delete |-> "TimesheetRepository-deleteTimesheet"][op]
    [] e = "ServiceCompany" ->
         [list |-> "ServiceCompanyRepository-getServiceCompanies",
          get |-> "ServiceCompanyRepository-getServiceCompanyById",
          create |-> "ServiceCompanyRepository-createServiceCompany",
          update |-> "ServiceCompanyRepository-updateServiceCompany",
          delete |-> "ServiceCompanyRepository-deleteServiceCompany"][op]
    [] e = "ProjectStatus" ->
         [list |-> "ProjectStatusRepository-getProjectStatuses",
          get |-> "ProjectStatusRepository-getProjectStatusById",
          create |-> "ProjectStatusRepository-createProjectStatus",
          update |-> "ProjectStatusRepository-updateProjectStatus",
          delete |-> "ProjectStatusRepository-deleteProjectStatus"][op]
    [] e = "Manager" ->
         [list |-> "ManagerRepository-getManagers",
          get |-> "ManagerRepository-getManagerById",
          create |-> "ManagerRepository-createManager",
          update |-> "ManagerRepository-updateManager",
          delete |-> "ManagerRepository-deleteManager"][op]

\* the message of the Error a repository method throws when no document matched
NotFoundMsg(e, op) ==
  CASE e = "Customer" ->
         [get |-> "Customer not found", update |-> "Failed to update customer",
          delete |-> "Failed to delete customer"][op]
    [] e = "Timesheet" ->
         [get |-> "Timesheet not found", update |-> "Failed to update timesheet",
          delete |-> "Failed to delete timesheet"][op]
    [] e = "ServiceCompany" ->
         [get |-> "ServiceCompany not found", update |-> "Failed to update ServiceCompany",
          delete |-> "Failed to delete ServiceCompany"][op]
    [] e = "ProjectStatus" ->
         [get |-> "Project Status not found", update |-> "Failed to update project status",
          delete |-> "Failed to delete project status"][op]
    [] e = "Manager" ->
         [get |-> "Manager not found", update |-> "Failed to update manager",
          delete |-> "Failed to delete manager"][op]

\* the label a service method logs a failure under
ServiceLabel(e, op) ==
  CASE e = "Customer" ->
         [list |-> "CustomerService-getCustomers", get |-> "CustomerService-getCustomer",
          create |-> "CustomerService-createCustomer",
          update |-> "CustomerService-updateCustomer",
          delete |-> "CustomerService-deleteCustomer"][op]
    [] e = "Timesheet" ->
         [list |-> "TimesheetService-getTimesheets", get |-> "TimesheetService-getTimesheet",
          create |-> "TimesheetService-createTimesheet",
          update |-> "TimesheetService-updateTimesheet",
          delete |-> "TimesheetService-deleteTimesheet"][op]
    [] e = "ServiceCompany" ->
         [list |-> "ServiceCompanyService-getServiceCompanies",
          get |-> "ServiceCompanyService-getServiceCompany",
          create |-> "ServiceCompanyService-createServiceCompany",
          update |-> "ServiceCompanyService-updateServiceCompany",
          delete |-> "ServiceCompanyService-deleteServiceCompany"][op]

\* the message of a service method's success envelope
ServiceOkMsg(e, op) ==
  CASE e = "Customer" ->
         [list |-> "Customers retrieved successfully",
          get |-> "Customer retrieved successfully",
          create |-> "Customer created successfully",
          update |-> "Customer updated successfully",
          delete |-> "Customer deleted successfully"][op]
    [] e = "Timesheet" ->
         [list |-> "Timesheets retrieved successfully",
          get |-> "Timesheet retrieved successfully",
          create |-> "Timesheet created successfully",
          update |-> "Timesheet updated successfully",
          delete |-> "Timesheet deleted successfully"][op]
    [] e = "ServiceCompany" ->
         [list |-> "ServiceCompanies retrieved successfully",
          get |-> "ServiceCompany retrieved successfully",
          create |-> "ServiceCompany created successfully",
          update |-> "ServiceCompany updated successfully",
          delete |-> "ServiceCompany deleted successfully"][op]

\* the message of a service method's error envelope
ServiceFailMsg(e, op) ==
  CASE e = "Customer" ->
         [list |-> "Customers retrieval failed", get |-> "Customer retrieval failed",
          create |-> "Customer creation failed", update |-> "Customer update failed",
          delete |-> "Customer deletion failed"][op]
    [] e = "Timesheet" ->
         [list |-> "Timesheets retrieval failed", get |-> "Timesheet retrieval failed",
          create |-> "Timesheet creation failed", update |-> "Timesheet update failed",
          delete |-> "Timesheet deletion failed"][op]
    [] e = "ServiceCompany" ->
         [list |-> "ServiceCompanies retrieval failed",
          get |-> "ServiceCompany retrieval failed",
          create |-> "ServiceCompany creation failed",
          update |-> "ServiceCompany update failed",
          delete |-> "ServiceCompany deletion failed"][op]

\* a service that passes no status with any success envelope
NoSuccessStatus(op) == "default"

\* the status a service method passes with its success envelope
SuccessStatus(op) == IF op = "create" THEN "201" ELSE "default"

(* ----------------------------- validators ----------------------------- *)

\* routes that bind a validation middleware before the service method
HasMiddleware(e, op) == e \in WithService /\ op # "list"

\* a validator that looks at every field a body may carry
EveryField(e) == BodyFields(e)

\* the named fields an ad-hoc validator looks at
CheckedFields(e) ==
  CASE e = "Customer" -> {"email", "name", "password"}
    [] e = "ServiceCompany" -> {"name", "address"}
    [] e = "Timesheet" -> {"activity", "worker", "manager", "startTime", "endTime", "file"}

\* a validator that checks creations only
MwRejectsCreateOnly(e, op, body, id) ==
  op = "create" /\ \E f \in CheckedFields(e) : ~Truthy(body, f)

\* the validator's condition for sending its 400
MwRejects(e, op, body, id) ==
  CASE op = "create" -> \E f \in CheckedFields(e) : ~Truthy(body, f)
    [] op = "update" -> \A f \in CheckedFields(e) : ~Truthy(body, f)
    [] OTHER -> id = 0

\* the label a validator's catch block logs under
MwLabel(e, op) ==
  CASE e = "Customer" ->
         [get |-> "Middleware-CustomerGet", create |-> "Middleware-CustomerCreate",
          update |-> "Middleware-CustomerUpdate",
          delete |-> "Middleware-CustomerDelete"][op]
    [] e = "Timesheet" ->
         [get |-> "Middleware-TimesheetGet", create |-> "Middleware-TimesheetCreate",
          update |-> "Middleware-TimesheetUpdate",
          delete |-> "Middleware-TimesheetDelete"][op]
    [] e = "ServiceCompany" ->
         [get |-> "Middleware-ServiceCompanyDelete",
          create |-> "Middleware-ServiceCompanyCreate",
          update |-> "Middleware-ServiceCompanyUpdate",
          delete |-> "Middleware-ServiceCompanyDelete"][op]

\* destructuring req.body throws: the request reached the validator without a
\* parsed body
MwThrows(op, hasBody) == op \in {"create", "update"} /\ ~hasBody

MwMessage(e, op) ==
  CASE op \in {"get", "delete"} -> "ID must be provided"
    [] e = "Customer" /\ op = "create" -> "Email, Name, and Password must be provided"
    [] e = "Customer" /\ op = "update" ->
         "At least one field (Email, Name, or Password) must be provided"
    [] e = "ServiceCompany" /\ op = "create" -> "Name and Address must be provided"
    [] e = "ServiceCompany" /\ op = "update" ->
         "At least one field (Name or Address) must be provided"
    [] e = "Timesheet" /\ op = "create" ->
         "Activity, Worker, Manager, StartTime, EndTime, and File must be provided"
    [] e = "Timesheet" /\ op = "update" ->
         "At least one of Activity, Worker, Manager, StartTime, EndTime, or File must be provided"

(* ------------------- schema-based validation (Joi) -------------------- *)

\* a Project body maps each key it carries to the kind of JSON value it holds:
\* "text" (a non-empty string that reads as no date, boolean or array), "empty"
\* (the empty string),
\* "isodate" (a string that parses as a date), "number", "bool", "strings"
\* (an array of strings)
Kinds == {"text", "empty", "isodate", "number", "bool", "strings"}

\* the keys of validateCreate's schema, in the order they are declared
CreateKeys ==
  <<"title", "description", "customer", "location", "projectManager", "type", "task",
    "orderNumber", "assignmentDate", "schedaRadioDate">>

\* the keys of validateUpdate's schema, in the order they are declared
UpdateKeys ==
  <<"title", "description", "customId", "prevCustomId", "customer", "admin", "manager",
    "status", "type", "task", "orderNumber", "assignmentDate", "schedaRadioDate",
    "statusHistory", "isActive", "isDeleted">>

Range(seq) == {seq[i] : i \in 1..Len(seq)}

ProjectKeys == Range(CreateKeys) \cup Range(UpdateKeys)

\* the Joi type a schema declares for a key
JoiType(k) ==
  CASE k \in {"assignmentDate", "schedaRadioDate"} -> "date"
    [] k \in {"isActive", "isDeleted"} -> "boolean"
    [] k = "statusHistory" -> "array"
    [] OTHER -> "string"

\* the rule of its type a value violates, "" when it violates none
TypeViolation(type, kind) ==
  CASE type = "string" ->
         IF kind \in {"text", "isodate"} THEN ""
         ELSE IF kind = "empty" THEN "is not allowed to be empty" ELSE "must be a string"
    [] type = "date" -> IF kind \in {"isodate", "number"} THEN "" ELSE "must be a valid date"
    [] type = "boolean" -> IF kind = "bool" THEN "" ELSE "must be a boolean"
    [] type = "array" -> IF kind = "strings" THEN "" ELSE "must be an array"

\* the rule key k of a schema violates in body, "" when none
KeyViolation(k, required, body) ==
  IF k \notin DOMAIN body THEN IF required THEN "is required" ELSE ""
  ELSE TypeViolation(JoiType(k), body[k])

NoViolation == <<>>

\* a validation that reports the last declared key that violates its rule
JoiErrorLast(keys, required, body) ==
  LET bad == {i \in 1..Len(keys) : KeyViolation(keys[i], required, body) # ""}
  IN  IF bad # {}
        THEN LET i == CHOOSE j \in bad : \A k \in bad : j >= k
             IN  <<keys[i], KeyViolation(keys[i], required, body)>>
      ELSE NoViolation

\* schema.validate(body).error.details[0]: the first declared key that violates
\* its rule, and after the declared keys the first key that is not declared
JoiError(keys, required, body) ==
  LET bad == {i \in 1..Len(keys) : KeyViolation(keys[i], required, body) # ""}
      unknown == {i \in 1..Len(UpdateKeys \o CreateKeys) :
                    /\ (UpdateKeys \o CreateKeys)[i] \in DOMAIN body
                    /\ (UpdateKeys \o CreateKeys)[i] \notin Range(keys)}
  IN  IF bad # {}
        THEN LET i == CHOOSE j \in bad : \A k \in bad : j <= k
             IN  <<keys[i], KeyViolation(keys[i], required, body)>>
      ELSE IF unknown # {}
        THEN LET i == CHOOSE j \in unknown : \A k \in unknown : j <= k
             IN  <<(UpdateKeys \o CreateKeys)[i], "is not allowed">>
      ELSE NoViolation

\* what a ProjectMiddleware validator finds in a request
ProjectViolation(op, body) ==
  CASE op = "create" -> JoiError(CreateKeys, TRUE, body)
    [] op = "update" -> JoiError(UpdateKeys, FALSE, body)
    [] OTHER -> NoViolation

\* a body that satisfies validateCreate, and one that satisfies validateUpdate
ValidCreateBody == [k \in Range(CreateKeys) |-> IF JoiType(k) = "date" THEN "isodate" ELSE "text"]

ValidUpdateBody ==
  [k \in Range(UpdateKeys) |->
     CASE JoiType(k) = "date" -> "isodate"
       [] JoiType(k) = "boolean" -> "bool"
       [] JoiType(k) = "array" -> "strings"
       [] OTHER -> "text"]

\* the bodies one change away from b: a key dropped, a value of another kind,
\* a key added
Variations(b) ==
  {b}
  \cup {Restrict(b, DOMAIN b \ {k}) : k \in DOMAIN b}
  \cup {[b EXCEPT ![k] = v] : k \in DOMAIN b, v \in Kinds}
  \cup {[k \in DOMAIN b \cup {x} |-> IF k = x THEN v ELSE b[k]] :
          x \in ProjectKeys \ DOMAIN b, v \in Kinds}

RECURSIVE Varied(_, _)
Varied(S, n) == IF n = 0 THEN S ELSE Varied(UNION {Variations(b) : b \in S}, n - 1)

ProjectBodies == Varied({<<>>, ValidCreateBody, ValidUpdateBody}, MaxPartial)

(* ------------------------ repository queries -------------------------- *)

NotDeleted(d) == "isDeleted" \in DOMAIN d /\ d["isDeleted"] = FALSE

\* the query object of the list method
ListQuery(e, d, search) ==
  /\ e \in SoftDeleted => NotDeleted(d)
  /\ search # <<>> =>
       /\ SearchField(e) \in DOMAIN d
       /\ RegexMatch(d[SearchField(e)], search)

\* a getById that looks at the identifier only
GetQueryByIdOnly(e, d, id) == d["_id"] = id

\* findOne({_id, isDeleted: false}) or findById(id)
GetQuery(e, d, id) == d["_id"] = id /\ (e \in SoftDeleted => NotDeleted(d))

\* an update that matches a soft-deleted document too
UpdateQueryByIdOnly(e, d, id) == d["_id"] = id

\* findOneAndUpdate({_id, isDeleted: false}, ..) or findByIdAndUpdate(id, ..)
UpdateQuery(e, d, id) == d["_id"] = id /\ (e \in SoftDeleted => NotDeleted(d))

\* a delete that matches a soft-deleted document too
DeleteQueryByIdOnly(e, d, id) == d["_id"] = id

\* findOneAndUpdate({_id, isDeleted: false}, {isDeleted: true}) or findByIdAndDelete(id)
DeleteQuery(e, d, id) == d["_id"] = id /\ (e \in SoftDeleted => NotDeleted(d))

Min(a, b) == IF a <= b THEN a ELSE b

\* find(query).skip((page - 1) * limit).limit(limit); Timesheet: find(query)
FindPage(e, docs, page, limit, search) ==
  LET m == SelectSeq(docs, LAMBDA d : ListQuery(e, d, search))
      skip == (page - 1) * limit
  IN  IF Paginates(e) THEN SubSeq(m, skip + 1, Min(skip + limit, Len(m))) ELSE m

\* countDocuments(query)
CountDocuments(e, docs, search) == Len(SelectSeq(docs, LAMBDA d : ListQuery(e, d, search)))

\* Math.ceil(totalCount / limit)
TotalPages(totalCount, limit) ==
  IF totalCount % limit = 0 THEN totalCount \div limit ELSE (totalCount \div limit) + 1

\* the Error a failed storage call raises
StorageError == [kind |-> "StorageError", msg |-> "storage"]
ValidationError == [kind |-> "ValidationError", msg |-> "validation failed"]
DuplicateKey == [kind |-> "DuplicateKey", msg |-> "E11000 duplicate key"]
NotFound(e, op) == [kind |-> "NotFound", msg |-> NotFoundMsg(e, op)]
NoError == [kind |-> "none", msg |-> ""]

(* ------------------------------- state -------------------------------- *)

VARIABLES
  db,      \* db[e]: the documents of e's collection, in insertion order
  nextId,  \* the next identifier the store hands out
  req,     \* req[r]: the request handled in slot r
  hist     \* hist[i]: what has happened to identifier i so far (history)

vars == <<db, nextId, req, hist>>

Unused == [ent |-> "none", state |-> "unused", body |-> <<>>]

\* the slot requests are handled in one at a time
Slots == {1}

\* the slots of requests that overlap
AllSlots == {1, 2}

Idle ==
  [ent |-> "Customer", op |-> "list", id |-> 1, body |-> <<>>, hasBody |-> TRUE,
   page |-> 1, limit |-> 1, search |-> <<>>,
   pc |-> "idle",
   nextCalls |-> 0, svcCalls |-> 0, queries |-> 0,
   data |-> <<>>, totalCount |-> 0, totalPages |-> 0, currentPage |-> 0,
   thrown |-> NoError, raised |-> NoError, ret |-> "none",
   log |-> <<>>, sent |-> <<>>,
   after |-> "none", live |-> FALSE, with |-> {}, turn |-> 0,
   ran |-> <<>>, passed |-> {}]

Init ==
  /\ db = [e \in Entities |-> <<>>]
  /\ nextId = 1
  /\ req = [r \in AllSlots |-> Idle]
  /\ hist = [i \in 1..MaxId |-> Unused]

\* history: identifier h after a successful write; a delete is never forgotten
\* (a soft delete with the document as it found it)
Written(h, what, doc) ==
  IF h.state = "deleted" THEN h ELSE [h EXCEPT !.state = what, !.body = doc]

\* the slice of which only the validation middleware is among the sources
MwOnly == {"Project"}

\* the slice of which only the route table is among the sources
ChainOnly == {"Location"}

Routes == Entities \cup MwOnly \cup ChainOnly

RouteOps(e) == IF e \in MwOnly THEN Ops \ {"list"} ELSE Ops

BodiesOf ==
  [e \in Routes |->
     IF e \in MwOnly THEN ProjectBodies ELSE IF e \in ChainOnly THEN {<<>>} ELSE Bodies(e)]

\* a route that binds its service method without any handler before it
UnguardedChain(op) ==
  [list |-> <<"getLocations">>, get |-> <<"getLocation">>,
   create |-> <<"createLocation">>, update |-> <<"updateLocation">>,
   delete |-> <<"deleteLocation">>][op]

\* the handlers locationRoute binds to each method and path, in order
LocationChain(op) ==
  [list |-> <<"authenticateToken", "getLocations">>,
   get |-> <<"authenticateToken", "getLocation">>,
   create |-> <<"authenticateToken", "validateCreate", "createLocation">>,
   update |-> <<"authenticateToken", "validateUpdate", "updateLocation">>,
   delete |-> <<"authenticateToken", "deleteLocation">>][op]

\* what a handler bound before the service method does with a request: it
\* passes it on (next) or stops it with a response of its own
HandlerOutcomes == {"next", "stop"}

\* where a request of (e, op) enters its handler chain
Entry(e, op) ==
  IF e \in MwOnly THEN "mw"
  ELSE IF e \in ChainOnly THEN "chain"
  ELSE IF e \in WithService THEN IF HasMiddleware(e, op) THEN "mw" ELSE "svc"
  ELSE "repo"

\* the slots whose request is being handled
InFlight == {s \in AllSlots : req[s].pc \notin {"idle", "done"}}

\* creations in flight that have not reached their insert yet
PendingCreates == {s \in AllSlots : req[s].op = "create" /\ req[s].pc \in {"mw", "svc", "repo"}}

\* the position of a write among the writes of the requests now being answered
Turn(r) == 1 + Cardinality({s \in AllSlots \ {r} : req[s].pc # "idle" /\ req[s].turn > 0})

\* the request (e, op, ..) enters its handler chain in slot r
Enter(r, e, op, id, body, hasBody, page, limit, search) ==
  /\ req[r].pc = "idle"
  /\ op = "create" => nextId + Cardinality(PendingCreates) <= MaxId
  /\ req' = [req EXCEPT ![r] =
               [Idle EXCEPT !.ent = e, !.op = op, !.id = id, !.body = body,
                            !.hasBody = hasBody,
                            !.page = page, !.limit = limit, !.search = search,
                            !.pc = Entry(e, op),
                            !.after = IF /\ op \in {"get", "update", "delete"}
                                         /\ hist[id].ent = e
                                      THEN hist[id].state ELSE "none",
                            !.live = /\ op \in {"get", "update", "delete"}
                                     /\ e \in Entities
                                     /\ \E k \in 1..Len(db[e]) : GetQuery(e, db[e][k], id),
                            !.with = InFlight]]
  /\ UNCHANGED <<db, nextId, hist>>

\* the same, within the number of collections that hold records
Admit(r, e, op, id, body, hasBody, page, limit, search) ==
  /\ req[r].pc = "idle"
  /\ Cardinality({x \in Entities : db[x] # <<>>} \cup {req[s].ent : s \in InFlight}
                   \cup {e}) <= MaxSlices
  /\ Enter(r, e, op, id, body, hasBody, page, limit, search)

\* a request arrives in a free slot
Arrive(r) ==
  /\ req[r].pc = "idle"
  /\ \E e \in Routes : \E op \in RouteOps(e) :
      \E id \in IF op \in {"get", "update", "delete"} THEN 1..MaxId ELSE {1},
         body \in IF op \in {"create", "update"} THEN BodiesOf[e] ELSE {<<>>},
         page \in IF op = "list" THEN 1..MaxPage ELSE {1},
         limit \in IF op = "list" THEN 1..MaxLimit ELSE {1},
         search \in IF op = "list" THEN Searches ELSE {<<>>} :
      \E hasBody \in IF e \in WithService /\ op \in {"create", "update"} /\ body = <<>>
                       THEN BOOLEAN ELSE {TRUE} :
        Admit(r, e, op, id, body, hasBody, page, limit, search)

\* a validator whose rejection lacks its return: it sends the 400 and goes on
\* to next()
MiddlewareFallsThrough(r) ==
  LET q == req[r] IN
  /\ q.pc = "mw" /\ q.ent \in WithService
  /\ IF MwRejects(q.ent, q.op, q.body, q.id)
       THEN req' = [req EXCEPT ![r].pc = "svc", ![r].nextCalls = q.nextCalls + 1,
                               ![r].sent = Append(q.sent,
                                  [by |-> "middleware", kind |-> "error", status |-> "400",
                                   msg |-> MwMessage(q.ent, q.op)])]
       ELSE req' = [req EXCEPT ![r].pc = "svc", ![r].nextCalls = q.nextCalls + 1]
  /\ UNCHANGED <<db, nextId, hist>>

\* the validation middleware: res.sendError(.., 400) and return, or next(); its
\* catch block logs and sends a 500
Middleware(r) ==
  LET q == req[r] IN
  /\ q.pc = "mw" /\ q.ent \in WithService
  /\ IF MwThrows(q.op, q.hasBody)
       THEN req' = [req EXCEPT ![r].pc = "done",
                               ![r].log = Append(q.log, MwLabel(q.ent, q.op)),
                               ![r].sent = Append(q.sent,
                                  [by |-> "middleware", kind |-> "error", status |-> "500",
                                   msg |-> "An unexpected error occurred"])]
     ELSE IF MwRejects(q.ent, q.op, q.body, q.id)
       THEN req' = [req EXCEPT ![r].pc = "done",
                               ![r].sent = Append(q.sent,
                                  [by |-> "middleware", kind |-> "error", status |-> "400",
                                   msg |-> MwMessage(q.ent, q.op)])]
       ELSE req' = [req EXCEPT ![r].pc = "svc", ![r].nextCalls = q.nextCalls + 1]
  /\ UNCHANGED <<db, nextId, hist>>

\* a ProjectMiddleware validator: res.status(400).json({error: first message})
\* and return, or next(); the handler next() runs is not among the sources
ProjectMiddleware(r) ==
  LET q == req[r]
      v == ProjectViolation(q.op, q.body) IN
  /\ q.pc = "mw" /\ q.ent \in MwOnly
  /\ IF v # NoViolation
       THEN req' = [req EXCEPT ![r].pc = "done",
                               ![r].sent = Append(q.sent,
                                  [by |-> "middleware", kind |-> "error", status |-> "400",
                                   msg |-> v])]
       ELSE req' = [req EXCEPT ![r].pc = "done", ![r].nextCalls = q.nextCalls + 1]
  /\ UNCHANGED <<db, nextId, hist>>

\* the router runs the next handler of a Location route: the handler after the
\* one that called next(); the service method, last in the chain, answers
LocationHandler(r) ==
  LET q == req[r]
      chain == LocationChain(q.op)
      h == chain[Len(q.ran) + 1] IN
  /\ q.pc = "chain" /\ q.ent \in ChainOnly
  /\ IF Len(q.ran) + 1 = Len(chain)
       THEN req' = [req EXCEPT ![r].pc = "done",
                               ![r].ran = Append(q.ran, h),
                               ![r].svcCalls = q.svcCalls + 1,
                               ![r].sent = Append(q.sent,
                                  [by |-> "service", kind |-> "any", status |-> "any",
                                   msg |-> h])]
       ELSE \E out \in HandlerOutcomes :
              IF out = "next"
                THEN req' = [req EXCEPT ![r].ran = Append(q.ran, h),
                                        ![r].passed = q.passed \cup {h},
                                        ![r].nextCalls = q.nextCalls + 1]
                ELSE req' = [req EXCEPT ![r].pc = "done",
                                        ![r].ran = Append(q.ran, h),
                                        ![r].sent = Append(q.sent,
                                           [by |-> h, kind |-> "error", status |-> "any",
                                            msg |-> h])]
  /\ UNCHANGED <<db, nextId, hist>>

\* a service method that waits until no other request is suspended at a
\* storage call
ServiceBlocking(r) ==
  LET q == req[r] IN
  /\ q.pc = "svc"
  /\ \A s \in AllSlots \ {r} : req[s].pc \notin {"repo", "repo2"}
  /\ req' = [req EXCEPT ![r].pc = "repo", ![r].svcCalls = q.svcCalls + 1]
  /\ UNCHANGED <<db, nextId, hist>>

\* the service method: takes its parameters from the request and awaits the
\* repository method, which issues its first storage call
Service(r) ==
  LET q == req[r] IN
  /\ q.pc = "svc"
  /\ req' = [req EXCEPT ![r].pc = "repo", ![r].svcCalls = q.svcCalls + 1]
  /\ UNCHANGED <<db, nextId, hist>>

\* where a repository method's result goes: to the awaiting service method, or
\* to the caller of a repository whose service is not among the sources
Returned(q) == IF q.ent \in WithService THEN "respond" ELSE "done"

Throw(r, err) ==
  req' = [req EXCEPT ![r].pc = "repoCatch", ![r].thrown = err,
                     ![r].queries = req[r].queries + 1]

Return(r, doc) ==
  req' = [req EXCEPT ![r].pc = Returned(req[r]), ![r].data = <<doc>>,
                     ![r].ret = "returned", ![r].queries = req[r].queries + 1]

\* the return of a repository method whose command changed the store
Write(r, doc) ==
  req' = [req EXCEPT ![r].pc = Returned(req[r]), ![r].data = <<doc>>,
                     ![r].ret = "returned", ![r].queries = req[r].queries + 1,
                     ![r].turn = Turn(r)]

PopulateAll(e, docs, managers) == [i \in 1..Len(docs) |-> Populate(e, docs[i], managers)]

\* the list method's first awaited storage call
ListFirst(r) ==
  LET q == req[r]  e == q.ent IN
  /\ q.pc = "repo" /\ q.op = "list"
  /\ IF CountsFirst(e)
       THEN LET n == CountDocuments(e, db[e], q.search) IN
            req' = [req EXCEPT ![r].pc = "repo2", ![r].queries = q.queries + 1,
                               ![r].totalCount = n,
                               ![r].totalPages = TotalPages(n, q.limit),
                               ![r].currentPage = q.page]
       ELSE req' = [req EXCEPT ![r].pc = "repo2", ![r].queries = q.queries + 1,
                               ![r].data = PopulateAll(e,
                                  FindPage(e, db[e], q.page, q.limit, q.search),
                                  db["Manager"])]
  /\ UNCHANGED <<db, nextId, hist>>

\* the list method's second awaited storage call, and its return
ListSecond(r) ==
  LET q == req[r]  e == q.ent IN
  /\ q.pc = "repo2" /\ q.op = "list"
  /\ IF CountsFirst(e)
       THEN req' = [req EXCEPT ![r].pc = Returned(q), ![r].queries = q.queries + 1,
                               ![r].ret = "returned",
                               ![r].data = PopulateAll(e,
                                  FindPage(e, db[e], q.page, q.limit, q.search),
                                  db["Manager"])]
       ELSE LET n == CountDocuments(e, db[e], q.search) IN
            req' = [req EXCEPT ![r].pc = Returned(q), ![r].queries = q.queries + 1,
                               ![r].ret = "returned",
                               ![r].totalCount = n,
                               ![r].totalPages = TotalPages(n, q.limit),
                               ![r].currentPage = q.page]
  /\ UNCHANGED <<db, nextId, hist>>

\* getById: one find; no document is an Error thrown inside the try block
RepoGetById(r) ==
  LET q == req[r]  e == q.ent
      hits == {k \in 1..Len(db[e]) : GetQuery(e, db[e][k], q.id)} IN
  /\ q.pc = "repo" /\ q.op = "get"
  /\ IF hits = {}
       THEN Throw(r, NotFound(e, "get"))
       ELSE Return(r, Populate(e, db[e][CHOOSE i \in hits : TRUE], db["Manager"]))
  /\ UNCHANGED <<db, nextId, hist>>

\* a create that also rejects a manager reference that resolves to no live
\* Manager
CreateErrorCheckingRefs(e, docs, doc) ==
  IF /\ "manager" \in DOMAIN doc
     /\ ~\E k \in 1..Len(db["Manager"]) :
           db["Manager"][k]["_id"] = doc["manager"][2] /\ NotDeleted(db["Manager"][k])
    THEN ValidationError
  ELSE IF \E f \in Required(e) : ~Provided(doc, f) THEN ValidationError
  ELSE IF Duplicates(e, docs, doc) THEN DuplicateKey
  ELSE NoError

\* what Model.create rejects: a required path not provided, a unique value taken
CreateError(e, docs, doc) ==
  IF \E f \in Required(e) : ~Provided(doc, f) THEN ValidationError
  ELSE IF Duplicates(e, docs, doc) THEN DuplicateKey
  ELSE NoError

\* create: one insert; the new document is returned as stored
RepoCreate(r) ==
  LET q == req[r]  e == q.ent
      doc == NewDoc(e, q.body, nextId)
      err == CreateError(e, db[e], doc) IN
  /\ q.pc = "repo" /\ q.op = "create"
  /\ IF err # NoError
       THEN Throw(r, err) /\ UNCHANGED <<db, nextId, hist>>
       ELSE /\ nextId <= MaxId
            /\ db' = [db EXCEPT ![e] = Append(db[e], doc)]
            /\ nextId' = nextId + 1
            /\ hist' = [hist EXCEPT ![nextId] =
                          [ent |-> e, state |-> "fresh", body |-> q.body]]
            /\ Write(r, doc)

\* update: one find-and-update; the document is returned as it is afterwards
RepoUpdate(r) ==
  LET q == req[r]  e == q.ent
      hits == {k \in 1..Len(db[e]) : UpdateQuery(e, db[e][k], q.id)} IN
  /\ q.pc = "repo" /\ q.op = "update"
  /\ IF hits = {}
       THEN Throw(r, NotFound(e, "update")) /\ UNCHANGED <<db, hist>>
       ELSE LET i == CHOOSE j \in hits : TRUE
                doc == SetFields(db[e][i], q.body) IN
            IF Duplicates(e, db[e], doc)
              THEN Throw(r, DuplicateKey) /\ UNCHANGED <<db, hist>>
              ELSE /\ db' = [db EXCEPT ![e][i] = doc]
                   /\ hist' = [hist EXCEPT ![q.id] = Written(hist[q.id], "updated", <<>>)]
                   /\ Write(r, Populate(e, doc, db'["Manager"]))
  /\ UNCHANGED nextId

\* delete: one find-and-update setting isDeleted, or one find-and-delete
RepoDelete(r) ==
  LET q == req[r]  e == q.ent
      hits == {k \in 1..Len(db[e]) : DeleteQuery(e, db[e][k], q.id)} IN
  /\ q.pc = "repo" /\ q.op = "delete"
  /\ IF hits = {}
       THEN Throw(r, NotFound(e, "delete")) /\ UNCHANGED <<db, hist>>
       ELSE LET i == CHOOSE j \in hits : TRUE IN
            /\ hist' = [hist EXCEPT ![q.id] = Written(hist[q.id], "deleted",
                                             IF e \in SoftDeleted THEN db[e][i] ELSE <<>>)]
            /\ IF e \in SoftDeleted
                 THEN LET doc == SetFields(db[e][i], [isDeleted |-> TRUE]) IN
                      /\ db' = [db EXCEPT ![e][i] = doc]
                      /\ Write(r, Populate(e, doc, db'["Manager"]))
                 ELSE /\ db' = [db EXCEPT ![e] = RemoveAt(db[e], i)]
                      /\ Write(r, Populate(e, db[e][i], db'["Manager"]))
  /\ UNCHANGED nextId

\* an awaited storage call rejects (connection lost, server error)
StorageFails(r) ==
  /\ req[r].pc \in {"repo", "repo2"}
  /\ Throw(r, StorageError)
  /\ UNCHANGED <<db, nextId, hist>>

\* a catch block that issues the storage call again instead of rethrowing
RepoCatchRetries(r) ==
  LET q == req[r] IN
  /\ q.pc = "repoCatch"
  /\ req' = [req EXCEPT ![r].pc = "repo", ![r].thrown = NoError]
  /\ UNCHANGED <<db, nextId, hist>>

\* a catch block that rethrows without logging
RepoCatchSilent(r) ==
  LET q == req[r] IN
  /\ q.pc = "repoCatch"
  /\ req' = [req EXCEPT ![r].raised = q.thrown,
                        ![r].ret = "thrown",
                        ![r].pc = IF q.ent \in WithService THEN "svcCatch" ELSE "done"]
  /\ UNCHANGED <<db, nextId, hist>>

\* the repository method's catch block: await logError(label); throw error
RepoCatch(r) ==
  LET q == req[r] IN
  /\ q.pc = "repoCatch"
  /\ req' = [req EXCEPT ![r].log = Append(q.log, RepoLabel(q.ent, q.op)),
                        ![r].raised = q.thrown,
                        ![r].ret = "thrown",
                        ![r].pc = IF q.ent \in WithService THEN "svcCatch" ELSE "done"]
  /\ UNCHANGED <<db, nextId, hist>>

\* the service method after its await returned: the success envelope
ServiceRespond(r) ==
  LET q == req[r] IN
  /\ q.pc = "respond"
  /\ req' = [req EXCEPT ![r].pc = "done",
                        ![r].sent = Append(q.sent,
                           [by |-> "service", kind |-> "success",
                            status |-> SuccessStatus(q.op),
                            msg |-> ServiceOkMsg(q.ent, q.op)])]
  /\ UNCHANGED <<db, nextId, hist>>

\* the service method's catch block: await logError(label); res.sendError(..)
ServiceCatch(r) ==
  LET q == req[r] IN
  /\ q.pc = "svcCatch"
  /\ req' = [req EXCEPT ![r].pc = "done",
                        ![r].log = Append(q.log, ServiceLabel(q.ent, q.op)),
                        ![r].sent = Append(q.sent,
                           [by |-> "service", kind |-> "error", status |-> "default",
                            msg |-> ServiceFailMsg(q.ent, q.op)])]
  /\ UNCHANGED <<db, nextId, hist>>

\* the response is out and the handler chain has ended: the slot is free again
Finish(r) ==
  /\ req[r].pc = "done"
  /\ req' = [req EXCEPT ![r] = Idle]
  /\ UNCHANGED <<db, nextId, hist>>

Next ==
  \E r \in Slots :
    \/ Arrive(r)
    \/ Middleware(r)
    \/ ProjectMiddleware(r)
    \/ LocationHandler(r)
    \/ Service(r)
    \/ ListFirst(r)
    \/ ListSecond(r)
    \/ RepoGetById(r)
    \/ RepoCreate(r)
    \/ RepoUpdate(r)
    \/ RepoDelete(r)
    \/ StorageFails(r)
    \/ RepoCatch(r)
    \/ ServiceRespond(r)
    \/ ServiceCatch(r)
    \/ Finish(r)

Spec == Init /\ [][Next]_vars

(* ------------------------ overlapping requests ------------------------ *)

\* the slices whose requests overlap
OverlapEntities == {"Customer", "ProjectStatus"}

\* the bodies overlapping requests carry
OverlapBodies(e, op) ==
  CASE e = "Customer" /\ op = "create" ->
         {[email |-> "e1", name |-> <<"b">>, password |-> "pw"]}
    [] e = "Customer" /\ op = "update" ->
         {[name |-> <<"A", "b">>], [name |-> <<"b">>, email |-> "e2"],
          [name |-> <<"b">>, isDeleted |-> TRUE]}
    [] e = "ProjectStatus" /\ op = "create" -> {[name |-> <<"b">>]}
    [] e = "ProjectStatus" /\ op = "update" -> {[name |-> n] : n \in Names}
    [] OTHER -> {<<>>}

\* a request arrives while others may be in flight; the requests are about the
\* first record of a collection
ArriveOverlapping(r) ==
  \E e \in OverlapEntities : \E op \in Ops :
    \E body \in OverlapBodies(e, op),
       limit \in IF op = "list" THEN 1..MaxLimit ELSE {1} :
      /\ op = "create" => nextId = 1 /\ PendingCreates = {}
      /\ Admit(r, e, op, 1, body, TRUE, 1, limit, <<>>)

\* the next step of the handler chain of the request in slot r; at an awaited
\* storage call, the call returning or failing
Step(r) ==
  \/ Middleware(r)
  \/ Service(r)
  \/ ListFirst(r)
  \/ ListSecond(r)
  \/ RepoGetById(r)
  \/ RepoCreate(r)
  \/ RepoUpdate(r)
  \/ RepoDelete(r)
  \/ StorageFails(r)
  \/ RepoCatch(r)
  \/ ServiceRespond(r)
  \/ ServiceCatch(r)
  \/ Finish(r)

NextOverlapping == \E r \in AllSlots : ArriveOverlapping(r) \/ Step(r)

\* requests interleave at every await
OverlapSpec == Init /\ [][NextOverlapping]_vars

(* ------------------------ referencing records ------------------------ *)

\* a collection and one that references it
ReferenceEntities == {"Manager", "Timesheet"}

\* the bodies of requests about a Manager and the Timesheets that reference it
ReferenceBodies(e, op) ==
  CASE e = "Manager" /\ op = "create" -> {[name |-> <<"b">>]}
    [] e = "Manager" /\ op = "update" -> {[name |-> <<"A", "b">>]}
    [] e = "Timesheet" /\ op = "create" ->
         [activity : {Ref("r1"), Ref("r2")}, worker : {Ref("r1")},
          manager : {Ref(i) : i \in 1..MaxId},
          startTime : {1}, endTime : {2}, hoursSpent : {3}, date : {1},
          file : {<<"b">>}]
    [] e = "Timesheet" /\ op = "update" ->
         {[manager |-> Ref(i)] : i \in 1..MaxId} \cup {[worker |-> Ref("r2")]}
    [] OTHER -> {<<>>}

\* a request about a Manager or a Timesheet arrives
ArriveReferencing(r) ==
  \E e \in ReferenceEntities : \E op \in Ops :
    \E id \in IF op \in {"get", "update", "delete"} THEN 1..MaxId ELSE {1},
       body \in ReferenceBodies(e, op) :
      Enter(r, e, op, id, body, TRUE, 1, 1, <<>>)

NextReferencing == \E r \in Slots : ArriveReferencing(r) \/ Step(r)

\* Managers and the Timesheets that reference them, one request at a time
ReferenceSpec == Init /\ [][NextReferencing]_vars

\* the event loop runs every handler of request 1 that is ready, and every
\* storage call request 1 awaits returns or fails; the other request may stay
\* suspended for ever
LiveSpec == Init /\ [][NextOverlapping]_vars /\ WF_vars(Step(1))

(* ------------------------------ claims -------------------------------- *)

\* the repository method of request q has returned or thrown
Decided(q) == q.ret # "none"

\* the storage call itself did not fail
StorageUp(q) == q.thrown # StorageError

\* the document of collection e with identifier i, as stored (<<>> when none)
Stored(e, i) ==
  LET hits == {k \in 1..Len(db[e]) : db[e][k]["_id"] = i}
  IN  IF hits = {} THEN <<>> ELSE db[e][CHOOSE k \in hits : TRUE]

\* C1 (as claimed, for the Customer payloads it names): for every accepted
\* creation payload, a getById of the created identifier, with no write in
\* between, returns a record whose fields equal the payload's fields.
C1_CreateThenGetReturnsPayload ==
  \A r \in Slots :
    LET q == req[r] IN
    (q.ent = "Customer" /\ q.op = "get" /\ q.after = "fresh" /\ Decided(q)
       /\ StorageUp(q)) =>
      /\ q.ret = "returned"
      /\ \A f \in DOMAIN hist[q.id].body :
           f \in DOMAIN q.data[1] /\ q.data[1][f] = hist[q.id].body[f]

\* what create followed by getById does return: the payload's fields, except
\* that a payload of a soft-delete entity carrying isDeleted = true is not
\* found, and that a reference field getById populates comes back as the
\* referenced document or null instead of the identifier
CreateThenGetReturnsStoredFields ==
  \A r \in Slots :
    LET q == req[r]
        body == hist[q.id].body IN
    (q.op = "get" /\ q.after = "fresh" /\ Decided(q) /\ StorageUp(q)) =>
      IF q.ent \in SoftDeleted /\ "isDeleted" \in DOMAIN body /\ body["isDeleted"]
        THEN q.ret = "thrown" /\ q.thrown.kind = "NotFound"
        ELSE /\ q.ret = "returned"
             /\ \A f \in DOMAIN body :
                  /\ f \in DOMAIN q.data[1]
                  /\ IF f \in PopulatedFields(q.ent)
                       THEN \/ q.data[1][f] = <<"null">>
                            \/ q.data[1][f] = <<"doc", body[f][2]>>
                       ELSE q.data[1][f] = body[f]

C3_HardDeleteIsFinal ==
  \A i \in 1..MaxId :
    (hist[i].state = "deleted" /\ hist[i].ent \in Entities \ SoftDeleted) =>
      /\ \A e \in Entities : Stored(e, i) = <<>>
      /\ \A r \in Slots :
           LET q == req[r] IN
           (q.op \in {"get", "update", "delete"} /\ q.ent = hist[i].ent /\ q.id = i
              /\ q.after = "deleted" /\ Decided(q)) =>
             /\ q.ret = "thrown"
             /\ StorageUp(q) => q.thrown = NotFound(q.ent, q.op)

\* an update of a hard-deleted Timesheet has been answered
C3_Witness ==
  \E r \in Slots :
    /\ req[r].op = "update" /\ req[r].ent = "Timesheet" /\ req[r].after = "deleted"
    /\ req[r].pc = "done" /\ req[r].thrown.kind = "NotFound"

\* the identifiers of a sequence of documents, in order
Ids(docs) == [k \in 1..Len(docs) |-> docs[k]["_id"]]

\* the documents of e's collection its list filter admits for a search text
Filtered(e, search) == SelectSeq(db[e], LAMBDA d : ListQuery(e, d, search))

\* positions (page-1)*limit .. (page-1)*limit + limit - 1 of a sequence, counted
\* from 0, as far as the sequence goes
Window(m, page, limit) ==
  LET first == (page - 1) * limit
      n == IF Len(m) <= first THEN 0 ELSE Min(limit, Len(m) - first)
  IN  [k \in 1..n |-> m[first + k]]

\* ceil(n / l) for positive l
Ceil(n, l) == CHOOSE c \in 0..n : c * l >= n /\ (c = 0 \/ (c - 1) * l < n)

\* a list request whose repository method has returned its result
Listed(q) == q.op = "list" /\ q.ret = "returned"

\* C4 (as claimed): for every entity's list, Timesheet's included, a request for
\* a page beyond ceil(N / L), N the number of matching records, returns an empty
\* data set and succeeds.
C4_PageBeyondLastIsEmpty ==
  \A r \in Slots :
    LET q == req[r] IN
    (q.op = "list" /\ Decided(q) /\ StorageUp(q)
       /\ q.page > Ceil(Len(Filtered(q.ent, q.search)), q.limit)) =>
      /\ q.ret = "returned"
      /\ q.data = <<>>

\* the same, for the repositories whose find applies skip and limit
PaginatedPageBeyondLastIsEmpty ==
  \A r \in Slots :
    LET q == req[r] IN
    (q.op = "list" /\ Decided(q) /\ StorageUp(q) /\ Paginates(q.ent)
       /\ q.page > Ceil(Len(Filtered(q.ent, q.search)), q.limit)) =>
      /\ q.ret = "returned"
      /\ q.data = <<>>

\* C5 (as claimed): every entity's list returns exactly the matching records at
\* positions (page-1)*limit .. (page-1)*limit + limit - 1 of the filtered result,
\* at most limit of them, with currentPage = page and
\* totalPages = ceil(totalCount / limit), totalCount the number of matches.
C5_ListReturnsThePageWindow ==
  \A r \in Slots :
    LET q == req[r]
        m == Filtered(q.ent, q.search) IN
    Listed(q) =>
      /\ Ids(q.data) = Ids(Window(m, q.page, q.limit))
      /\ Len(q.data) <= q.limit
      /\ q.currentPage = q.page
      /\ q.totalCount = Len(m)
      /\ q.totalPages = Ceil(q.totalCount, q.limit)

\* the same, for the repositories whose find applies skip and limit; for
\* Timesheet only the page bookkeeping
PaginatedListReturnsThePageWindow ==
  \A r \in Slots :
    LET q == req[r]
        m == Filtered(q.ent, q.search) IN
    Listed(q) =>
      /\ Paginates(q.ent) =>
           Ids(q.data) = Ids(Window(m, q.page, q.limit)) /\ Len(q.data) <= q.limit
      /\ q.currentPage = q.page
      /\ q.totalCount = Len(m)
      /\ q.totalPages = Ceil(q.totalCount, q.limit)

\* text contains pat as a substring, letter case ignored
ContainsCI(text, pat) ==
  \E off \in 0..(Len(text) - Len(pat)) :
     \A i \in 1..Len(pat) : Lower(pat[i]) = Lower(text[off + i])

\* the filter the list operations are described by
Admitted(e, d, search) ==
  /\ e \in SoftDeleted => ("isDeleted" \in DOMAIN d /\ d["isDeleted"] = FALSE)
  /\ search # <<>> =>
       (SearchField(e) \in DOMAIN d /\ ContainsCI(d[SearchField(e)], search))

\* C6 (as claimed): a list admits every record when the search text is empty
\* (the not-deleted ones for Customer and Manager), and otherwise exactly the
\* records whose designated text field contains the search text, letter case
\* ignored; data and totalCount both come from this filter.
C6_SearchIsSubstringMatch ==
  \A r \in Slots :
    LET q == req[r]
        admitted == SelectSeq(db[q.ent], LAMBDA d : Admitted(q.ent, d, q.search)) IN
    Listed(q) =>
      /\ q.totalCount = Len(admitted)
      /\ \A k \in 1..Len(q.data) :
           \E j \in 1..Len(admitted) : admitted[j]["_id"] = q.data[k]["_id"]
      /\ Paginates(q.ent) => Ids(q.data) = Ids(Window(admitted, q.page, q.limit))

\* the same, for search texts without a character that is special in a
\* regular expression
PlainSearchIsSubstringMatch ==
  \A r \in Slots :
    LET q == req[r]
        admitted == SelectSeq(db[q.ent], LAMBDA d : Admitted(q.ent, d, q.search)) IN
    (Listed(q) /\ \A i \in 1..Len(q.search) : q.search[i] # ".") =>
      /\ q.totalCount = Len(admitted)
      /\ \A k \in 1..Len(q.data) :
           \E j \in 1..Len(admitted) : admitted[j]["_id"] = q.data[k]["_id"]
      /\ Paginates(q.ent) => Ids(q.data) = Ids(Window(admitted, q.page, q.limit))

\* the responses of request q sent by one layer
SentBy(q, layer) == SelectSeq(q.sent, LAMBDA m : m.by = layer)

\* C7: for Customer, ServiceCompany and Timesheet, a PATCH whose body is an
\* object that provides no field is answered with status 400 by the middleware; the service method
\* and the repository update are not invoked for it, so it issues no storage
\* call.
C7_EmptyUpdateStopsAtMiddleware ==
  \A r \in Slots :
    LET q == req[r] IN
    (q.ent \in WithService /\ q.op = "update" /\ q.hasBody /\ q.body = <<>>
       /\ q.pc # "idle") =>
      /\ q.pc \in {"mw", "done"}
      /\ q.svcCalls = 0 /\ q.queries = 0 /\ q.nextCalls = 0
      /\ q.pc = "done" =>
           /\ Len(q.sent) = 1
           /\ q.sent[1].by = "middleware" /\ q.sent[1].status = "400"

\* an empty Timesheet PATCH has been answered
C7_Witness ==
  \E r \in Slots :
    /\ req[r].ent = "Timesheet" /\ req[r].op = "update"
    /\ req[r].hasBody /\ req[r].body = <<>>
    /\ req[r].pc = "done" /\ Len(req[r].sent) = 1

\* C8: every validation middleware invocation, ProjectMiddleware's and the
\* ad-hoc ones, either sends one rejection and does not call next, or calls
\* next exactly once and sends nothing; never both, never neither.
C8_RejectOrNextNeverBoth ==
  \A r \in Slots :
    LET q == req[r]
        rejections == Len(SentBy(q, "middleware")) IN
    (q.pc # "idle" /\ Entry(q.ent, q.op) = "mw") =>
      IF q.pc = "mw"
        THEN rejections = 0 /\ q.nextCalls = 0
        ELSE \/ rejections = 1 /\ q.nextCalls = 0 /\ q.svcCalls = 0
             \/ rejections = 0 /\ q.nextCalls = 1

\* a ProjectMiddleware validator has rejected a creation body
C8_Witness ==
  \E r \in Slots :
    /\ req[r].ent = "Project" /\ req[r].op = "create" /\ req[r].pc = "done"
    /\ Len(req[r].sent) = 1 /\ req[r].nextCalls = 0

\* C9: every service method invocation sends exactly one response: a success
\* envelope when the repository call returned, with status 201 for create and
\* the default status otherwise; an error envelope with the operation's fixed
\* failure message and no status of its own when the repository call threw,
\* whatever the cause; never a success and an error for one request.
C9_ServiceSendsExactlyOneResponse ==
  \A r \in Slots :
    LET q == req[r]
        answers == SentBy(q, "service") IN
    (q.ent \in WithService /\ q.svcCalls > 0) =>
      /\ q.svcCalls = 1
      /\ Len(answers) <= 1
      /\ q.pc = "done" =>
           /\ Len(q.sent) = 1 /\ Len(answers) = 1
           /\ q.ret \in {"returned", "thrown"}
           /\ q.ret = "returned" =>
                /\ answers[1].kind = "success"
                /\ answers[1].status = (IF q.op = "create" THEN "201" ELSE "default")
           /\ q.ret = "thrown" =>
                /\ answers[1].kind = "error"
                /\ answers[1].status = "default"
                /\ answers[1].msg = ServiceFailMsg(q.ent, q.op)

\* a Customer creation has been answered with 201
C9_Witness ==
  \E r \in Slots :
    /\ req[r].ent = "Customer" /\ req[r].op = "create" /\ req[r].pc = "done"
    /\ req[r].sent # <<>> /\ req[r].sent[1].status = "201"

\* positions of a request's log that carry a label
LoggedAt(q, label) == {k \in 1..Len(q.log) : q.log[k] = label}

\* C10: when a repository method fails (storage failure or not found), the
\* error is logged once at the repository under that operation's label and the
\* same error is raised to the caller; the service's log and error response
\* come strictly after the repository's log; the error is neither swallowed
\* nor replaced.
C10_RepositoryLogsOnceAndRethrows ==
  \A r \in Slots :
    LET q == req[r] IN
    (q.thrown # NoError) =>
      IF q.pc = "repoCatch"
        THEN q.log = <<>> /\ q.sent = <<>> /\ q.ret = "none"
        ELSE /\ q.ret = "thrown"
             /\ q.raised = q.thrown
             /\ LoggedAt(q, RepoLabel(q.ent, q.op)) = {1}
             /\ q.ent \in WithService =>
                  /\ LoggedAt(q, ServiceLabel(q.ent, q.op)) \subseteq {2}
                  /\ q.sent # <<>> =>
                       /\ q.log = <<RepoLabel(q.ent, q.op), ServiceLabel(q.ent, q.op)>>
                       /\ q.sent[1].kind = "error"

\* a ProjectStatus getById that found nothing has logged and rethrown
C10_Witness ==
  \E r \in Slots :
    /\ req[r].ent = "ProjectStatus" /\ req[r].op = "get" /\ req[r].pc = "done"
    /\ req[r].raised.kind = "NotFound"
    /\ req[r].log = <<"ProjectStatusRepository-getProjectStatusById">>

\* a create request whose body is an object that omits a path the schema
\* requires
OmitsRequired(q) ==
  /\ q.op = "create" /\ q.hasBody
  /\ \E f \in Required(q.ent) : f \notin DOMAIN q.body

\* C11 (as claimed): a create request that omits any field the entity requires
\* at creation, Timesheet's hoursSpent and date included, is rejected with 400
\* by the validation middleware and never reaches the repository.
C11_MissingRequiredFieldIs400 ==
  \A r \in Slots :
    LET q == req[r] IN
    (q.ent \in WithService /\ OmitsRequired(q) /\ q.pc # "idle") =>
      /\ q.pc \in {"mw", "done"}
      /\ q.queries = 0
      /\ q.pc = "done" =>
           Len(q.sent) = 1 /\ q.sent[1].by = "middleware" /\ q.sent[1].status = "400"

\* the same, for the required fields the validators name
NamedRequiredFieldMissingIs400 ==
  \A r \in Slots :
    LET q == req[r] IN
    (q.ent \in WithService /\ q.op = "create" /\ q.hasBody /\ q.pc # "idle"
       /\ \E f \in Required(q.ent) \cap CheckedFields(q.ent) : f \notin DOMAIN q.body) =>
      /\ q.pc \in {"mw", "done"}
      /\ q.queries = 0
      /\ q.pc = "done" =>
           Len(q.sent) = 1 /\ q.sent[1].by = "middleware" /\ q.sent[1].status = "400"

\* slots a and b hold two answered updates of one record that was there to be
\* found when each of them arrived
UpdatePair(a, b) ==
  /\ a # b
  /\ req[a].op = "update" /\ req[b].op = "update"
  /\ req[a].ent = req[b].ent /\ req[a].id = req[b].id
  /\ req[a].live /\ req[b].live
  /\ Decided(req[a]) /\ Decided(req[b])
  /\ StorageUp(req[a]) /\ StorageUp(req[b])

\* the body of request q marks the record as deleted
MarksDeleted(q) ==
  q.ent \in SoftDeleted /\ "isDeleted" \in DOMAIN q.body /\ q.body["isDeleted"] = TRUE

\* the stored record holds the paths of last's body, and those paths of first's
\* body that last's body does not write
LastWriteWins(first, last) ==
  LET now == Stored(last.ent, last.id) IN
  /\ now # <<>>
  /\ \A f \in DOMAIN last.body : now[f] = last.body[f]
  /\ \A f \in DOMAIN first.body \ DOMAIN last.body : now[f] = first.body[f]

Target(q) ==
  IF q.op = "update" THEN q.id
  ELSE IF q.ret = "returned" THEN q.data[1]["_id"] ELSE 0

\* another stored Customer holds the email of request q's body
EmailTaken(q) ==
  /\ "email" \in DOMAIN q.body
  /\ \E k \in 1..Len(db["Customer"]) :
       /\ db["Customer"][k]["email"] = q.body["email"]
       /\ db["Customer"][k]["_id"] # Target(q)

\* C13: no two stored Customer records, soft-deleted ones included, have the
\* same email; a createCustomer or updateCustomer that would give a record an
\* email another record holds fails and writes nothing; no other field of any
\* entity is the cause of a uniqueness error.
C13_CustomerEmailIsUnique ==
  /\ \A i \in 1..Len(db["Customer"]) : \A j \in 1..Len(db["Customer"]) :
       i # j => db["Customer"][i]["email"] # db["Customer"][j]["email"]
  /\ \A r \in Slots :
       LET q == req[r] IN
       (q.ent \in Entities /\ q.op \in {"create", "update"} /\ Decided(q) /\ StorageUp(q)) =>
         /\ (q.ent = "Customer" /\ EmailTaken(q)) => q.ret = "thrown" /\ q.turn = 0
         /\ q.thrown = DuplicateKey => q.ent = "Customer" /\ EmailTaken(q) /\ q.turn = 0
         /\ q.ret = "thrown" =>
              q.thrown \in {DuplicateKey, ValidationError, NotFound(q.ent, "update")}

\* a createCustomer carrying the email of a soft-deleted Customer has failed
C13_Witness ==
  \E r \in Slots :
    /\ req[r].ent = "Customer" /\ req[r].op = "create" /\ req[r].pc = "done"
    /\ req[r].thrown = DuplicateKey
    /\ Len(db["Customer"]) = 1 /\ db["Customer"][1]["isDeleted"] = TRUE

\* the first n elements of a sequence
Prefix(seq, n) == [k \in 1..n |-> seq[k]]

\* the handlers of a Location route in the order claimed: the authentication
\* check, the validation middleware on POST / and PATCH /:id, the service method
ClaimedOrder(op) ==
  CASE op = "create" -> <<"authenticateToken", "validateCreate", "createLocation">>
    [] op = "update" -> <<"authenticateToken", "validateUpdate", "updateLocation">>
    [] op = "list" -> <<"authenticateToken", "getLocations">>
    [] op = "get" -> <<"authenticateToken", "getLocation">>
    [] op = "delete" -> <<"authenticateToken", "deleteLocation">>

\* C14: on every Location route the handlers run in the order authentication
\* check, validation middleware (POST / and PATCH /:id), service method; the
\* service method runs only after every handler before it passed the request
\* on, and a request stopped by a handler reaches no later one.
C14_LocationHandlersRunInOrder ==
  \A r \in Slots :
    LET q == req[r]
        order == ClaimedOrder(q.op)
        service == order[Len(order)] IN
    (q.ent = "Location" /\ q.pc # "idle") =>
      /\ Len(q.ran) <= Len(order)
      /\ q.ran = Prefix(order, Len(q.ran))
      /\ q.svcCalls = (IF service \in Range(q.ran) THEN 1 ELSE 0)
      /\ service \in Range(q.ran) =>
           /\ "authenticateToken" \in q.passed
           /\ q.op = "create" => "validateCreate" \in q.passed
           /\ q.op = "update" => "validateUpdate" \in q.passed
      /\ \A k \in 1..Len(q.ran) :
           (q.ran[k] # service /\ q.ran[k] \notin q.passed) =>
             k = Len(q.ran) /\ q.pc = "done" /\ Len(q.sent) = 1

\* a PATCH /:id on the Location route has passed authentication and validation
\* and has been answered by the service method
C14_Witness ==
  \E r \in Slots :
    /\ req[r].ent = "Location" /\ req[r].op = "update" /\ req[r].pc = "done"
    /\ req[r].ran = <<"authenticateToken", "validateUpdate", "updateLocation">>

\* the stored Managers a reference resolves to
Referenced(ref) == {k \in 1..Len(db["Manager"]) : db["Manager"][k]["_id"] = ref[2]}

\* a stored Timesheet whose manager reference resolves to no Manager, or to a
\* soft-deleted one
Dangling(t) ==
  \/ Referenced(t["manager"]) = {}
  \/ \E k \in Referenced(t["manager"]) : db["Manager"][k]["isDeleted"] = TRUE

\* C15: createTimesheet and updateTimesheet succeed whether or not the
\* activity, worker and manager they reference exist; deleting a Manager that
\* Timesheets reference succeeds and leaves every Timesheet as it was.
C15_WritesNeverCheckReferences ==
  /\ [](\A r \in Slots :
          LET q == req[r] IN
          (Decided(q) /\ StorageUp(q)) =>
            /\ (q.ent = "Timesheet" /\ q.op = "create"
                  /\ \A f \in Required("Timesheet") : Provided(q.body, f)) =>
                 q.ret = "returned"
            /\ (q.ent = "Timesheet" /\ q.op = "update" /\ q.live) => q.ret = "returned"
            /\ (q.ent = "Manager" /\ q.op = "delete" /\ q.live) => q.ret = "returned")
  /\ [][db'["Manager"] # db["Manager"] => db'["Timesheet"] = db["Timesheet"]]_vars

\* the Manager a stored Timesheet references has just been deleted, and the
\* Timesheet still references it
C15_Witness ==
  \E r \in Slots :
    /\ req[r].ent = "Manager" /\ req[r].op = "delete" /\ req[r].ret = "returned"
    /\ Len(db["Timesheet"]) = 1
    /\ db["Timesheet"][1]["manager"] = Ref(req[r].id)
    /\ Dangling(db["Timesheet"][1])

\* the request in slot r has its answer: the service sent the response, or the
\* repository method whose service is not among the sources returned or threw
Answered(r) ==
  /\ req[r].pc = "done"
  /\ req[r].ent \in WithService => Len(req[r].sent) = 1
  /\ req[r].ent \notin WithService => req[r].ret \in {"returned", "thrown"}

\* C16: a request in flight can always take its next step whatever the other
\* request is doing, and, its own storage calls returning or failing, it
\* eventually has its response however long the other stays suspended.
C16_EveryRequestIsAnswered ==
  /\ [](\A r \in AllSlots : r \in InFlight => ENABLED Step(r))
  /\ (1 \in InFlight) ~> Answered(1)

\* request 1 has its response while the request that was already in flight
\* when it arrived is still suspended at its storage call
C16_Witness ==
  /\ Answered(1)
  /\ 2 \in req[1].with
  /\ req[2].pc = "repo" /\ req[2].with = {}

\* C17 (as claimed): a repository method that has returned or thrown has
\* issued exactly one storage call, whichever of list, getById, create, update
\* and delete it is; no call is issued again after a failure.
C17_OneStorageCallPerInvocation ==
  \A r \in Slots :
    LET q == req[r] IN
    /\ q.queries <= 1
    /\ (q.ent \in Entities /\ Decided(q)) => q.queries = 1

\* what the repositories do: getById, create, update and delete issue one
\* storage call; a list issues two, the find and the countDocuments, the second
\* only after the first returned; a call that failed is not issued again.
RepositoryIssuesItsCallsOnce ==
  \A r \in Slots :
    LET q == req[r] IN
    /\ q.queries <= IF q.op = "list" THEN 2 ELSE 1
    /\ (q.ent \in Entities /\ Decided(q)) =>
         /\ q.op # "list" => q.queries = 1
         /\ (q.op = "list" /\ q.ret = "returned") => q.queries = 2
         /\ q.thrown = StorageError => q.queries \in {1, 2}

\* the fields a validator declares
Declared(op) == IF op = "create" THEN CreateKeys ELSE UpdateKeys

\* the kinds of value a declared type admits: a string field a non-empty
\* string, a date field a date string or a number of milliseconds, a boolean
\* field a boolean, statusHistory an array of strings
Admits(type) ==
  CASE type = "string" -> {"text", "isodate"}
    [] type = "date" -> {"isodate", "number"}
    [] type = "boolean" -> {"bool"}
    [] type = "array" -> {"strings"}

\* the fields by which body violates the contract of validator op: a required
\* field missing, a declared field whose value its type does not admit, a
\* field that is not declared
Broken(op, body) ==
  {k \in Range(Declared(op)) :
     IF k \in DOMAIN body THEN body[k] \notin Admits(JoiType(k)) ELSE op = "create"}
  \cup (DOMAIN body \ Range(Declared(op)))

\* the declared fields come in the order of their declaration, the fields that
\* are not declared after them
Rank(op, k) ==
  LET d == Declared(op)
      all == UpdateKeys \o CreateKeys IN
  IF k \in Range(d) THEN CHOOSE i \in 1..Len(d) : d[i] = k
  ELSE Len(d) + (CHOOSE i \in 1..Len(all) : all[i] = k /\ \A j \in 1..(i - 1) : all[j] # k)

\* C18: validateCreate and validateUpdate answer 400 exactly when the body
\* violates the declared contract, with one message, that of the first violated
\* rule; a body that violates nothing (the empty body for validateUpdate too)
\* is passed to next and gets no response from the validator.
C18_ProjectValidatorsEnforceTheContract ==
  \A r \in Slots :
    LET q == req[r]
        broken == Broken(q.op, q.body) IN
    (q.ent \in MwOnly /\ q.op \in {"create", "update"} /\ q.pc = "done") =>
      IF broken = {}
        THEN q.sent = <<>> /\ q.nextCalls = 1
        ELSE /\ q.nextCalls = 0
             /\ Len(q.sent) = 1
             /\ q.sent[1].status = "400"
             /\ q.sent[1].msg[1] \in broken
             /\ \A k \in broken : Rank(q.op, q.sent[1].msg[1]) <= Rank(q.op, k)
             /\ q.sent[1].msg[2] =
                  (IF q.sent[1].msg[1] \notin Range(Declared(q.op)) THEN "is not allowed"
                   ELSE IF q.sent[1].msg[1] \notin DOMAIN q.body THEN "is required"
                   ELSE TypeViolation(JoiType(q.sent[1].msg[1]), q.body[q.sent[1].msg[1]]))

\* validateCreate has rejected a body that violates several rules, with the
\* message of one of them
C18_Witness ==
  \E r \in Slots :
    /\ req[r].ent \in MwOnly /\ req[r].op = "create" /\ req[r].pc = "done"
    /\ Cardinality(Broken("create", req[r].body)) >= 2
    /\ Len(req[r].sent) = 1

\* the position in a collection of the document with identifier i (0 when none)
At(docs, i) ==
  IF \E k \in 1..Len(docs) : docs[k]["_id"] = i
    THEN CHOOSE k \in 1..Len(docs) : docs[k]["_id"] = i
    ELSE 0

AddressedToDeleted(q) ==
  /\ q.ent \in SoftDeleted /\ q.op \in {"update", "delete"}
  /\ ~q.live
  /\ At(db[q.ent], q.id) # 0

\* C20: a Customer or Manager record with isDeleted = true stays stored as it
\* is whatever request is handled, and an update or delete addressed to it
\* fails: the repository method throws or the middleware rejects, and the
\* response, where a service answers, is an error.
C20_IsDeletedIsMonotone ==
  /\ [][\A e \in SoftDeleted : \A k \in 1..Len(db[e]) :
          db[e][k]["isDeleted"] = TRUE =>
            Len(db'[e]) >= k /\ db'[e][k] = db[e][k]]_vars
  /\ [](\A r \in Slots :
          LET q == req[r] IN
          (AddressedToDeleted(q) /\ q.pc = "done") =>
            /\ q.ret # "returned"
            /\ q.ent \in WithService => Len(q.sent) = 1 /\ q.sent[1].kind = "error"
            /\ q.ent \notin WithService => q.ret = "thrown")

\* an update addressed to a soft-deleted record has failed with the update's
\* not-found error, and the record is still stored as deleted
C20_Witness ==
  \E r \in Slots :
    LET q == req[r] IN
    /\ AddressedToDeleted(q) /\ q.op = "update" /\ q.pc = "done"
    /\ q.thrown = NotFound(q.ent, "update")
    /\ Stored(q.ent, q.id)["isDeleted"] = TRUE

\* the data and the totalCount of a returned list agree: no more records than
\* counted, and all of them on a first page that has room for them
Consistent(q) ==
  /\ Len(q.data) <= q.totalCount
  /\ (q.page = 1 /\ q.limit >= q.totalCount) => Len(q.data) = q.totalCount

\* C21 (as claimed): every returned list is a consistent snapshot, also when
\* creates or deletes on the same collection are handled while the list is in
\* flight: data never holds more records than totalCount, and for page 1 with
\* limit >= totalCount it holds exactly totalCount records.
C21_ListIsConsistentSnapshot ==
  \A r \in AllSlots :
    (req[r].op = "list" /\ req[r].ret = "returned") => Consistent(req[r])

\* what holds: a list handled with no other request in flight is consistent
SequentialListIsConsistent ==
  \A r \in Slots :
    (req[r].op = "list" /\ req[r].ret = "returned") => Consistent(req[r])

\* request q is a getById, update or delete of an identifier that had no live
\* record when the request arrived
AddressedToNone(q) ==
  /\ q.ent \in Entities /\ q.op \in {"get", "update", "delete"}
  /\ ~q.live

\* C22: a getById, update or delete of an identifier with no live record
\* (never created, hard-deleted, or soft-deleted) fails with an error and no
\* step of it changes any collection; in particular an update creates nothing
\* and a delete after a successful delete of the same identifier fails.
C22_NoLiveRecordMeansFailure ==
  /\ [](\A r \in Slots :
          LET q == req[r] IN
          /\ (AddressedToNone(q) /\ q.pc = "done") =>
               /\ q.ret # "returned"
               /\ q.ent \in WithService => Len(q.sent) = 1 /\ q.sent[1].kind = "error"
               /\ q.ent \notin WithService => q.ret = "thrown"
          /\ (q.ent \in Entities /\ q.op = "delete" /\ q.after = "deleted" /\ Decided(q)) =>
               q.ret = "thrown")
  /\ [][\A r \in Slots : (AddressedToNone(req[r]) /\ req[r].pc # "idle") => db' = db]_vars

\* a second delete of an identifier has failed with the delete's not-found
\* error
C22_Witness ==
  \E r \in Slots :
    LET q == req[r] IN
    /\ AddressedToNone(q) /\ q.op = "delete" /\ q.after = "deleted"
    /\ q.pc = "done"
    /\ q.thrown = NotFound(q.ent, "delete")

\* the fields an update validator names
Named(e) ==
  CASE e = "Customer" -> {"email", "name", "password"}
    [] e = "ServiceCompany" -> {"name", "address"}
    [] e = "Timesheet" -> {"activity", "worker", "manager", "startTime", "endTime", "file"}

\* C23: the update validators of Customer, ServiceCompany and Timesheet pass a
\* PATCH on exactly when one of the fields they name has a truthy value; any
\* other body (other updatable fields only, empty strings only) is answered
\* with 400 by the validator, reaches neither service nor repository, and no
\* validator step changes the store.
C23_UpdateValidatorsDecideOnNamedFields ==
  /\ [](\A r \in Slots :
          LET q == req[r] IN
          (q.ent \in WithService /\ q.op = "update" /\ q.hasBody
             /\ q.pc \notin {"idle", "mw"}) =>
            IF \E f \in Named(q.ent) : Truthy(q.body, f)
              THEN q.nextCalls = 1 /\ SentBy(q, "middleware") = <<>>
              ELSE /\ q.pc = "done"
                   /\ q.nextCalls = 0 /\ q.svcCalls = 0 /\ q.queries = 0
                   /\ Len(q.sent) = 1
                   /\ q.sent[1].by = "middleware" /\ q.sent[1].status = "400")
  /\ [][\A r \in Slots : req[r].pc = "mw" => db' = db]_vars

\* a PATCH that provides a field, but none the validator names with a truthy
\* value, has been rejected with 400
C23_Witness ==
  \E r \in Slots :
    LET q == req[r] IN
    /\ q.ent \in WithService /\ q.op = "update" /\ q.pc = "done"
    /\ DOMAIN q.body # {}
    /\ \A f \in Named(q.ent) : ~Truthy(q.body, f)
    /\ Len(q.sent) = 1 /\ q.sent[1].status = "400"
    /\ db[q.ent] # <<>>

\* the Customers that were marked deleted by an update, not by a delete
DeletedByUpdate ==
  {i \in 1..MaxId :
     /\ hist[i].ent = "Customer" /\ hist[i].state = "updated"
     /\ Stored("Customer", i) # <<>>
     /\ Stored("Customer", i)["isDeleted"] = TRUE}

\* the stored Customers a list may show
LiveCustomers == {k \in 1..Len(db["Customer"]) : NotDeleted(db["Customer"][k])}

\* C24: a Customer PATCH that carries isDeleted = true and a truthy email, name
\* or password passes the validator and, the record being live and the email
\* free, is applied; a record so marked is then like a deleted one: getById,
\* update and delete of its id fail, and no list shows it or counts it.
C24_UpdateCanSoftDelete ==
  \A r \in Slots :
    LET q == req[r] IN
    /\ (q.ent = "Customer" /\ q.op = "update" /\ q.hasBody /\ MarksDeleted(q)
          /\ (\E f \in Named("Customer") : Truthy(q.body, f))
          /\ q.pc \notin {"idle", "mw"}) =>
         /\ q.nextCalls = 1
         /\ (q.live /\ Decided(q) /\ StorageUp(q) /\ ~EmailTaken(q)) =>
              /\ q.ret = "returned"
              /\ Stored("Customer", q.id)["isDeleted"] = TRUE
              /\ q.id \in DeletedByUpdate
    /\ (q.ent = "Customer" /\ q.op \in {"get", "update", "delete"}
          /\ q.id \in DeletedByUpdate /\ ~q.live /\ q.pc = "done") =>
         /\ q.ret # "returned"
         /\ Len(q.sent) = 1 /\ q.sent[1].kind = "error"
    /\ (q.ent = "Customer" /\ Listed(q)) =>
         /\ \A k \in 1..Len(q.data) : q.data[k]["_id"] \notin DeletedByUpdate
         /\ q.totalCount <= Cardinality(LiveCustomers)
         /\ q.search = <<>> => q.totalCount = Cardinality(LiveCustomers)

\* a getById of a Customer that a PATCH marked deleted has failed with
\* not-found
C24_Witness ==
  \E r \in Slots :
    LET q == req[r] IN
    /\ q.ent = "Customer" /\ q.op = "get" /\ q.pc = "done"
    /\ q.id \in DeletedByUpdate
    /\ q.thrown = NotFound("Customer", "get")

====
